---- MODULE Spec2Model ----
(***************************************************************************)
(* The ShipmentMap component (src/components/ShipmentMap.tsx): its view    *)
(* state, the route fetch started by the effect on every change of         *)
(* from/to/current, the fallback generator and the completed-prefix        *)
(* computation; and the two geocoding lookups (src/lib/geocode.ts and      *)
(* getCoords of the tracking page).                                        *)
(*                                                                         *)
(* Numbers.  A JavaScript number is modelled as a pair <<u, r>>: u is the  *)
(* value in fixed point, Scale units to the degree, and r counts multiples *)
(* of the double Math.sin(Math.PI) * 0.02 (about 2.449e-18), a quantity    *)
(* far below the resolution of u that IEEE-754 arithmetic still carries.   *)
(* Coordinates handed to the component are whole degrees, r = 0.           *)
(***************************************************************************)
EXTENDS Integers, Sequences, FiniteSets, Bags, TLC

\* ---------------------------------------------------------------- bounds
MaxInFlight == 2
MaxRouteLen == 3
MaxResults == 2

\* ------------------------------------------------------------- numbers
Scale == 10000
steps == 20
MaxValue == 2147483647

Abs(x) == IF x < 0 THEN 0 - x ELSE x

Deg(d) == <<d * Scale, 0>>

Coords(la, lo) == [lat |-> Deg(la), lon |-> Deg(lo)]

RECURSIVE Pow2Floor(_)
Pow2Floor(n) == IF n < 2 THEN 1 ELSE 2 * Pow2Floor(n \div 2)

\* a - b on numbers whose residual is zero (coordinates)
Minus(a, b) == <<a[1] - b[1], 0>>

\* IEEE-754 round-to-nearest: x + tiny = x exactly when |tiny| is below half
\* the gap to the neighbouring double.  With tiny = r * 2.449e-18 and x a whole
\* number of degrees in [2^k, 2^(k+1)), that gap is 2^(k-52), so the sum is x
\* iff |r| < 45.328 * 2^k; the gap below a power of two is half as wide; and
\* 0 + tiny = tiny.
Absorbed(xu, r) ==
    LET a == Abs(xu) \div Scale
        towardZero == a = Pow2Floor(a) /\ (r > 0) # (xu > 0)
    IN  /\ Abs(xu) >= Scale
        /\ Abs(r) * 1000 < (IF towardZero THEN 22664 ELSE 45328) * Pow2Floor(a)

\* x + o, for x with zero residual
Plus(x, o) ==
    <<x[1] + o[1], IF o[2] # 0 /\ ~Absorbed(x[1] + o[1], o[2]) THEN o[2] ELSE 0>>

\* (Math.sin(Math.PI * i / steps) * 0.02), rounded to 1/Scale; at i = steps the
\* double Math.sin(Math.PI) is 1.2246e-16, not 0: one unit of residual.
SinTable ==
    <<0, 31, 62, 91, 118, 141, 162, 178, 190, 198, 200,
      198, 190, 178, 162, 141, 118, 91, 62, 31, 0>>

SinTerm(i) == <<SinTable[i + 1], IF i = steps THEN 1 ELSE 0>>

\* s * d for a sine term s and a coordinate difference d in whole degrees
Times(s, d) == <<(s[1] * d[1]) \div Scale, s[2] * (d[1] \div Scale)>>

\* a * (1 - t) + b * t for t = i / steps
Lerp(a, b, i) == <<(a[1] * (steps - i) + b[1] * i) \div steps, 0>>

\* ------------------------------------------------------------- inputs
\* origin and destination of the shipment shown
Trips == {<<Coords(0, 0), Coords(0, 2)>>}

\* current?: Coords | null, as a sequence of at most one Coords; (1, 1) is as
\* far from (0, 0) as from (0, 2)
NoCurrent == <<>>
Currents == {NoCurrent, <<Coords(0, 0)>>, <<Coords(1, 1)>>}

\* provider coordinates are [lon, lat] pairs
ProviderPoints == {<<p.lon, p.lat>> : p \in {Coords(0, 0), Coords(0, 2)}}

SeqsUpTo(S, n) == UNION {[1..k -> S] : k \in 1..n}

Geometries == SeqsUpTo(ProviderPoints, MaxRouteLen)

\* ------------------------------------------------ ShipmentMap: pure parts

\* generateFallbackRoute, lines 158-170: one point per i in 0..steps
FallbackPoint(f, t, i) ==
    LET lat == Lerp(f.lat, t.lat, i)
        lon == Lerp(f.lon, t.lon, i)
        latOffset == Times(SinTerm(i), Minus(t.lon, f.lon))
        lonOffset == Times(SinTerm(i), Minus(f.lat, t.lat))
    IN  <<Plus(lat, latOffset), Plus(lon, lonOffset)>>

\* the loop run with i < steps
generateFallbackRouteShort(f, t) == [k \in 1..steps |-> FallbackPoint(f, t, k - 1)]

generateFallbackRoute(f, t) == [k \in 1..(steps + 1) |-> FallbackPoint(f, t, k - 1)]

\* Math.pow(current.lat - pointLat, 2) + Math.pow(current.lon - pointLon, 2);
\* Math.sqrt is strictly increasing on these values, so the scan compares the
\* squares.
Distance(cur, point) ==
    (cur.lat[1] - point[1][1]) * (cur.lat[1] - point[1][1])
        + (cur.lon[1] - point[2][1]) * (cur.lon[1] - point[2][1])

\* the scan with distance <= closestDistance: the last nearest point wins
RECURSIVE ClosestScanLast(_, _, _, _, _)
ClosestScanLast(fullRoute, cur, i, idx, best) ==
    IF i > Len(fullRoute) THEN idx
    ELSE IF Distance(cur, fullRoute[i]) <= best
         THEN ClosestScanLast(fullRoute, cur, i + 1, i - 1, Distance(cur, fullRoute[i]))
         ELSE ClosestScanLast(fullRoute, cur, i + 1, idx, best)

\* the forEach of calculateCompletedRoute from element i on (1-based), with
\* closestPointIndex = idx (0-based) and closestDistance = best
RECURSIVE ClosestScan(_, _, _, _, _)
ClosestScan(fullRoute, cur, i, idx, best) ==
    IF i > Len(fullRoute) THEN idx
    ELSE IF Distance(cur, fullRoute[i]) < best
         THEN ClosestScan(fullRoute, cur, i + 1, i - 1, Distance(cur, fullRoute[i]))
         ELSE ClosestScan(fullRoute, cur, i + 1, idx, best)

closestPointIndex(fullRoute, cur) == ClosestScan(fullRoute, cur, 1, 0, MaxValue)

\* calculateCompletedRoute: the value of completedRoute after the call, given
\* its value before (the early return sets nothing)
calculateCompletedRoute(fullRoute, cur, before) ==
    IF cur = NoCurrent \/ Len(fullRoute) = 0 THEN before
    ELSE SubSeq(fullRoute, 1, closestPointIndex(fullRoute, cur[1]) + 1)

\* Math.floor(length * 0.6); the double product floors to 3 * length div 5 for
\* every length below 100000
completionPoint(route) == (3 * Len(route)) \div 5

\* coord => [coord[0], coord[1]]: the provider's order kept
KeepCoord(coord) == <<coord[1], coord[2]>>

\* coord => [coord[1], coord[0]]
SwapCoord(coord) == <<coord[2], coord[1]>>

Convert(coordinates) == [k \in 1..Len(coordinates) |-> SwapCoord(coordinates[k])]

\* ------------------------------------------------ ShipmentMap: state

VARIABLES
    from, to, current,      \* the props of the latest render
    routeData,              \* useState<LatLngExpression[]>([])
    completedRoute,         \* useState<LatLngExpression[]>([])
    isLoading,              \* useState(true)
    error,                  \* useState("")
    inflight,               \* the bag of runs of fetchRoadRoute suspended at an await
    last,                   \* the run whose continuation ran most recently, if any
    unhandled               \* whether a call of fetchRoadRoute() rejected

mapVars ==
    <<from, to, current, routeData, completedRoute, isLoading, error,
      inflight, last, unhandled>>

\* the body of a routing response, as far as lines 86-93 read it
RouteObjects == [geometry : {<<>>} \cup {<<g>> : g \in Geometries}]

\* { code, routes? }: routes is absent, or a list of at most one route here
DataSet ==
    [code : {"Ok"}, routes : {<<>>, << <<>> >>} \cup {<< <<r>> >> : r \in RouteObjects}]
        \cup [code : {"NoRoute"}, routes : {<<>>}]

\* what stops the try block, in the order the code tests: the outcome of a run
\* whose fetch resolved with response.ok and whose body parsed to data
DataOutcome(data) ==
    IF data.code # "Ok" THEN "badCode"
    ELSE IF data.routes = <<>> THEN "routesMissing"
    ELSE IF Len(data.routes[1]) = 0 THEN "routesEmpty"
    ELSE IF data.routes[1][1].geometry = <<>> THEN "typeError"
    ELSE "ok"

Failures ==
    {"fetchRejected", "notOk", "jsonRejected", "badCode", "routesMissing",
     "routesEmpty", "typeError"}

\* a handler that takes only the two errors the try block throws itself
CatchTakesOwnErrors(outcome) ==
    outcome \in {"notOk", "badCode", "routesMissing", "routesEmpty"}

\* catch (err): a catch clause without a type test takes every throw
CatchTakes(outcome) == outcome \in Failures

\* lines 95-104
SuccessCompleted(coordinates, cur, before) ==
    IF cur # NoCurrent
    THEN calculateCompletedRoute(coordinates, cur, before)
    ELSE SubSeq(coordinates, 1, completionPoint(coordinates))

\* lines 113-116
CatchCompleted(fallbackRoute, cur, before) ==
    IF cur # NoCurrent
    THEN SubSeq(fallbackRoute, 1, completionPoint(fallbackRoute))
    ELSE before

\* the catch block without setRouteData(fallbackRoute)
CatchRouteKept(run) == routeData

\* lines 110-111
CatchRoute(run) == generateFallbackRoute(run.from, run.to)

Run(f, t, c, pc) == [from |-> f, to |-> t, current |-> c, pc |-> pc]

\* the run of fetchRoadRoute up to its first await: setIsLoading(true), fetch(...)
StartRun(f, t, c) ==
    /\ isLoading' = TRUE
    /\ inflight' = inflight (+) SetToBag({Run(f, t, c, "fetch")})

\* the continuation of a suspended run from its await to the end of
\* fetchRoadRoute, the try block ending with `outcome`
Finish(run, outcome, coordinates) ==
    /\ inflight' = inflight (-) SetToBag({run})
    /\ last' = << [from |-> run.from, to |-> run.to, current |-> run.current,
                   outcome |-> outcome, coordinates |-> coordinates] >>
    /\ IF outcome = "ok"
       THEN /\ routeData' = Convert(coordinates)
            /\ completedRoute' =
                   SuccessCompleted(Convert(coordinates), run.current, completedRoute)
            /\ UNCHANGED <<error, unhandled>>
       ELSE IF CatchTakes(outcome)
       THEN /\ error' = "Could not load road route data"
            /\ routeData' = CatchRoute(run)
            /\ completedRoute' = CatchCompleted(CatchRoute(run), run.current, completedRoute)
            /\ UNCHANGED unhandled
       ELSE /\ unhandled' = TRUE
            /\ UNCHANGED <<error, routeData, completedRoute>>
    /\ isLoading' = FALSE
    /\ UNCHANGED <<from, to, current>>

\* ------------------------------------------------ geocoding: pure parts

\* a string is the sequence of its characters
Digits == <<"0", "1", "2", "3", "4", "5", "6", "7", "8", "9">>

IsDigit(c) == \E d \in 1..10 : Digits[d] = c

DigitValue(c) == (CHOOSE d \in 1..10 : Digits[d] = c) - 1

\* how many digits str holds from position i on
RECURSIVE DigitRun(_, _)
DigitRun(str, i) ==
    IF i <= Len(str) /\ IsDigit(str[i]) THEN 1 + DigitRun(str, i + 1) ELSE 0

\* the decimal value of the n digits of str from position i on
RECURSIVE DigitsValue(_, _, _)
DigitsValue(str, i, n) ==
    IF n = 0 THEN 0
    ELSE 10 * DigitsValue(str, i, n - 1) + DigitValue(str[i + n - 1])

RECURSIVE Pow10(_)
Pow10(n) == IF n = 0 THEN 1 ELSE 10 * Pow10(n - 1)

NaN == <<"NaN">>

\* parseFloat: an optional sign, digits, an optional point and digits; the text
\* after the longest such prefix is ignored; NaN without any digit.  Decimals
\* beyond the resolution 1/Scale are dropped.
parseFloat(str) ==
    LET signed == Len(str) > 0 /\ str[1] \in {"-", "+"}
        s == IF signed THEN 2 ELSE 1
        n == DigitRun(str, s)
        dot == s + n <= Len(str) /\ str[s + n] = "."
        m == IF dot THEN DigitRun(str, s + n + 1) ELSE 0
        k == IF m > 4 THEN 4 ELSE m
        magnitude == DigitsValue(str, s, n) * Scale
                        + DigitsValue(str, s + n + 1, k) * Pow10(4 - k)
    IN  IF n + m = 0 THEN NaN
        ELSE <<IF signed /\ str[1] = "-" THEN 0 - magnitude ELSE magnitude, 0>>

\* one candidate of the search response: { lat: string, lon: string, ... }
Candidates ==
    {[lat |-> <<"4", "0", ".", "7">>, lon |-> <<"-", "7", "4", ".", "0", "0", "6">>],
     [lat |-> <<"-", "3">>, lon |-> <<"x">>]}

CandidateLists == {<<>>} \cup SeqsUpTo(Candidates, MaxResults)

\* what a lookup's request comes to: fetch rejects, res.json() rejects, or the
\* body parses to an array of candidates, to null, or to an object
Responses ==
    [kind : {"fetchRejected", "jsonRejected"}, type : {"none"}, items : {<<>>}]
        \cup [kind : {"json"}, type : {"null", "object"}, items : {<<>>}]
        \cup [kind : {"json"}, type : {"array"}, items : CandidateLists]

\* data[data.length - 1] in place of data[0]
LastOf(items) ==
    [lat |-> parseFloat(items[Len(items)].lat), lon |-> parseFloat(items[Len(items)].lon)]

FirstOf(items) ==
    [lat |-> parseFloat(items[1].lat), lon |-> parseFloat(items[1].lon)]

\* getCoords of the tracking page, lines 97-114: everything thrown inside is
\* caught and null returned; the value is a sequence of at most one Coords
getCoords(resp) ==
    IF resp.kind # "json" \/ resp.type = "null" THEN [thrown |-> "", value |-> <<>>]
    ELSE IF resp.type = "array" /\ Len(resp.items) > 0
         THEN [thrown |-> "", value |-> <<FirstOf(resp.items)>>]
         ELSE [thrown |-> "", value |-> <<>>]

\* getCoordinatesFromAddress, src/lib/geocode.ts: nothing is caught
getCoordinatesFromAddress(resp) ==
    IF resp.kind = "fetchRejected" THEN [thrown |-> "fetch failed", value |-> <<>>]
    ELSE IF resp.kind = "jsonRejected" THEN [thrown |-> "SyntaxError", value |-> <<>>]
    ELSE IF resp.type = "array" /\ Len(resp.items) > 0
         THEN [thrown |-> "", value |-> <<FirstOf(resp.items)>>]
         ELSE [thrown |-> "Address not found", value |-> <<>>]

\* ------------------------------------------------ tracking page: state

VARIABLES
    pagePc,                 \* where fetchCoordinates stands: idle, origin, destination, current
    origin, destination,    \* its locals, each null or a Coords
    fromCoords, toCoords, currentCoords,    \* the fields of shipmentData
    mapLoaded,
    pageError,              \* the page's error state
    lookup,                 \* the latest lookup of getCoords: its response and result
    libCall                 \* the latest call of getCoordinatesFromAddress, likewise

geoVars ==
    <<pagePc, origin, destination, fromCoords, toCoords, currentCoords,
      mapLoaded, pageError, lookup, libCall>>

vars == <<mapVars, geoVars>>

\* ------------------------------------------------ ShipmentMap: actions

MapInit ==
    /\ \E trip \in Trips : from = trip[1] /\ to = trip[2]
    /\ current \in Currents
    /\ routeData = <<>>
    /\ completedRoute = <<>>
    /\ isLoading = TRUE
    /\ error = ""
    /\ inflight = SetToBag({Run(from, to, current, "fetch")})
    /\ last = <<>>
    /\ unhandled = FALSE

\* a render with new from/to/current: the effect runs fetchRoadRoute again
ChangeProps(f, t, c) ==
    /\ BagCardinality(inflight) < MaxInFlight
    /\ from' = f
    /\ to' = t
    /\ current' = c
    /\ StartRun(f, t, c)
    /\ UNCHANGED <<routeData, completedRoute, error, last, unhandled>>
    /\ UNCHANGED geoVars

\* await fetch(...) rejects
FetchRejects(run) ==
    /\ run.pc = "fetch"
    /\ Finish(run, "fetchRejected", <<>>)
    /\ UNCHANGED geoVars

\* await fetch(...) resolves, !response.ok
ResponseNotOk(run) ==
    /\ run.pc = "fetch"
    /\ Finish(run, "notOk", <<>>)
    /\ UNCHANGED geoVars

\* await fetch(...) resolves, response.ok: on to await response.json()
ResponseOk(run) ==
    /\ run.pc = "fetch"
    /\ inflight' = (inflight (-) SetToBag({run}))
                       (+) SetToBag({Run(run.from, run.to, run.current, "json")})
    /\ UNCHANGED <<from, to, current, routeData, completedRoute, isLoading, error,
                   last, unhandled>>
    /\ UNCHANGED geoVars

\* await response.json() rejects: the body is no JSON
JsonRejects(run) ==
    /\ run.pc = "json"
    /\ Finish(run, "jsonRejected", <<>>)
    /\ UNCHANGED geoVars

\* await response.json() resolves to data
JsonResolves(run, data) ==
    /\ run.pc = "json"
    /\ Finish(run, DataOutcome(data),
              IF DataOutcome(data) = "ok" THEN data.routes[1][1].geometry[1] ELSE <<>>)
    /\ UNCHANGED geoVars

Next ==
    \/ \E trip \in Trips, c \in Currents : ChangeProps(trip[1], trip[2], c)
    \/ \E run \in BagToSet(inflight) : FetchRejects(run)
    \/ \E run \in BagToSet(inflight) : ResponseNotOk(run)
    \/ \E run \in BagToSet(inflight) : ResponseOk(run)
    \/ \E run \in BagToSet(inflight) : JsonRejects(run)
    \/ \E run \in BagToSet(inflight), data \in DataSet : JsonResolves(run, data)

\* ------------------------------------------------ tracking page: actions

GeoInit ==
    /\ pagePc = "idle"
    /\ origin = <<>>
    /\ destination = <<>>
    /\ fromCoords = <<>>
    /\ toCoords = <<>>
    /\ currentCoords = <<>>
    /\ mapLoaded = FALSE
    /\ pageError = ""
    /\ lookup = <<>>
    /\ libCall = <<>>

\* handleSearch with a tracking number: setError(""), setShipmentData(mock),
\* fetchCoordinates() up to its first await
HandleSearch ==
    /\ pagePc = "idle"
    /\ pagePc' = "origin"
    /\ pageError' = ""
    /\ fromCoords' = <<>>
    /\ toCoords' = <<>>
    /\ currentCoords' = <<>>
    /\ origin' = <<>>
    /\ destination' = <<>>
    /\ UNCHANGED <<mapLoaded, lookup, libCall>>
    /\ UNCHANGED mapVars

\* the await of fetchCoordinates that is pending settles: getCoords has seen resp
PageLookup(resp) ==
    LET got == getCoords(resp) IN
    /\ pagePc \in {"origin", "destination", "current"}
    /\ lookup' = <<[place |-> pagePc, response |-> resp, result |-> got]>>
    /\ IF got.thrown # ""
       THEN /\ pageError' = "Could not load map coordinates"
            /\ pagePc' = "idle"
            /\ UNCHANGED <<origin, destination, fromCoords, toCoords, currentCoords,
                           mapLoaded>>
       ELSE CASE pagePc = "origin" ->
                    /\ origin' = got.value
                    /\ pagePc' = "destination"
                    /\ UNCHANGED <<destination, fromCoords, toCoords, currentCoords,
                                   mapLoaded, pageError>>
              [] pagePc = "destination" ->
                    /\ destination' = got.value
                    /\ pagePc' = "current"
                    /\ UNCHANGED <<origin, fromCoords, toCoords, currentCoords,
                                   mapLoaded, pageError>>
              [] pagePc = "current" ->
                    /\ fromCoords' = origin
                    /\ toCoords' = destination
                    /\ currentCoords' = got.value
                    /\ mapLoaded' = TRUE
                    /\ pagePc' = "idle"
                    /\ UNCHANGED <<origin, destination, pageError>>
    /\ UNCHANGED libCall
    /\ UNCHANGED mapVars

\* a call of getCoordinatesFromAddress whose request comes to resp
LibLookup(resp) ==
    /\ libCall' = <<[response |-> resp, result |-> getCoordinatesFromAddress(resp)]>>
    /\ UNCHANGED <<pagePc, origin, destination, fromCoords, toCoords, currentCoords,
                   mapLoaded, pageError, lookup>>
    /\ UNCHANGED mapVars

NextGeocode ==
    \/ HandleSearch
    \/ \E resp \in Responses : PageLookup(resp)
    \/ \E resp \in Responses : LibLookup(resp)

\* ------------------------------------------------ specifications

Init == MapInit /\ GeoInit

Spec == Init /\ [][Next]_vars

\* the page before the map is rendered: ShipmentMap is not mounted
InitGeocode ==
    /\ GeoInit
    /\ from = Coords(0, 0)
    /\ to = Coords(0, 2)
    /\ current = NoCurrent
    /\ routeData = <<>>
    /\ completedRoute = <<>>
    /\ isLoading = TRUE
    /\ error = ""
    /\ inflight = EmptyBag
    /\ last = <<>>
    /\ unhandled = FALSE

SpecGeocode == InitGeocode /\ [][NextGeocode]_vars

\* a wider set of whole-degree places for the fallback generator alone
GridPlaces == {Coords(la, lo) : la \in {-1, 0, 1}, lo \in {-100, 0, 2, 50}}

InitFallback ==
    /\ GeoInit
    /\ from \in GridPlaces
    /\ to \in GridPlaces
    /\ current = NoCurrent
    /\ routeData = <<>>
    /\ completedRoute = <<>>
    /\ isLoading = TRUE
    /\ error = ""
    /\ inflight = SetToBag({Run(from, to, current, "fetch")})
    /\ last = <<>>
    /\ unhandled = FALSE

NextFallback == \E run \in BagToSet(inflight) : FetchRejects(run)

SpecFallback == InitFallback /\ [][NextFallback]_vars

\* ------------------------------------------------ properties

Failed == last # <<>> /\ last[1].outcome \in Failures

Succeeded == last # <<>> /\ last[1].outcome = "ok"

Quiet == BagCardinality(inflight) = 0

IsPrefix(s, t) == Len(s) <= Len(t) /\ s = SubSeq(t, 1, Len(s))

\* [lat, lon] of a Coords
PointOf(c) == <<c.lat, c.lon>>

\* C1: after a run of fetchRoadRoute that failed (fetch rejected, response not
\* ok, code not "Ok", routes missing or empty, or any other throw), for origin
\* and destination that differ, routeData is the synthesized fallback route of
\* that run's origin and destination, and it is not empty.
C1_FailureGivesFallback ==
    (Failed /\ last[1].from # last[1].to) =>
        /\ routeData = generateFallbackRoute(last[1].from, last[1].to)
        /\ routeData # <<>>

C1_Witness ==
    /\ Failed
    /\ last[1].outcome = "routesEmpty"
    /\ last[1].from # last[1].to
    /\ Len(routeData) = steps + 1

\* C2: after a failed run the completed prefix follows the rule of the success
\* path applied to the synthesized route: truncated at the first nearest index
\* (inclusive) when the run had a current coordinate, the first
\* floor(length * 0.6) points when it had none.
C2_FallbackPrefixAsOnSuccess ==
    Failed =>
        completedRoute =
            IF last[1].current # NoCurrent
            THEN SubSeq(routeData, 1, closestPointIndex(routeData, last[1].current[1]) + 1)
            ELSE SubSeq(routeData, 1, completionPoint(routeData))

\* C3 (as claimed): after a successful run with a current coordinate equal to
\* route point k, the completed prefix is the first k+1 points, for every such k
\* (k counts from 0; the sequences here count from 1).
C3_PrefixAtEveryEqualPoint ==
    (Succeeded /\ last[1].current # NoCurrent) =>
        \A k \in 1..Len(routeData) :
            routeData[k] = PointOf(last[1].current[1]) =>
                completedRoute = SubSeq(routeData, 1, k)

\* C3 (amended): after a successful run with a current coordinate, the completed
\* prefix ends at the first route point at minimum distance from current; so
\* when current equals route point k and no earlier route point equals it, the
\* completed prefix is exactly the first k+1 points.
C3_PrefixAtFirstNearest ==
    (Succeeded /\ last[1].current # NoCurrent) =>
        LET cur == last[1].current[1]
            N == Len(routeData)
        IN  /\ \E j \in 1..N :
                /\ completedRoute = SubSeq(routeData, 1, j)
                /\ \A m \in 1..N : Distance(cur, routeData[j]) <= Distance(cur, routeData[m])
                /\ \A m \in 1..(j - 1) : Distance(cur, routeData[j]) < Distance(cur, routeData[m])
            /\ \A k \in 1..N :
                (/\ routeData[k] = PointOf(cur)
                 /\ \A m \in 1..(k - 1) : routeData[m] # PointOf(cur))
                    => completedRoute = SubSeq(routeData, 1, k)

C3_Witness ==
    /\ Succeeded
    /\ last[1].current # NoCurrent
    /\ Len(routeData) = 3
    /\ routeData[1] # PointOf(last[1].current[1])
    /\ routeData[2] = PointOf(last[1].current[1])
    /\ completedRoute = SubSeq(routeData, 1, 2)

\* C4: after a run for which no current coordinate was supplied, the completed
\* prefix has length floor(N * 0.6), N the length of the route held in routeData.
C4_SixtyPercentWithoutCurrent ==
    (last # <<>> /\ last[1].current = NoCurrent) =>
        Len(completedRoute) = (Len(routeData) * 6) \div 10

\* C5 (as claimed): the fallback route has steps+1 points, the first exactly the
\* origin and the last exactly the destination.
C5_FallbackEndsExactly ==
    Failed =>
        /\ Len(routeData) = steps + 1
        /\ routeData[1] = PointOf(last[1].from)
        /\ routeData[steps + 1] = PointOf(last[1].to)

\* C5 (amended): the fallback route has steps+1 = 21 points, the first exactly
\* the origin; the last equals the destination up to floating-point tolerance:
\* each of its coordinates differs from the destination's by at most
\* |Math.sin(Math.PI) * 0.02| times the span of the other coordinate.
C5_FallbackEndsWithinTolerance ==
    Failed =>
        LET f == last[1].from
            t == last[1].to
            end == routeData[steps + 1]
        IN  /\ Len(routeData) = 21
            /\ routeData[1] = PointOf(f)
            /\ end[1][1] = t.lat[1]
            /\ end[2][1] = t.lon[1]
            /\ Abs(end[1][2]) * Scale <= Abs(t.lon[1] - f.lon[1])
            /\ Abs(end[2][2]) * Scale <= Abs(f.lat[1] - t.lat[1])

C5_Witness ==
    /\ Failed
    /\ last[1].from # last[1].to
    /\ Len(routeData) = 21
    /\ routeData[1] = PointOf(last[1].from)
    /\ routeData[21][1][1] = last[1].to.lat[1]
    /\ routeData[21] # PointOf(last[1].to)

ZeroResults(resp) == resp.kind = "json" /\ resp.type = "array" /\ Len(resp.items) = 0

HasResults(resp) == resp.kind = "json" /\ resp.type = "array" /\ Len(resp.items) > 0

FirstCandidate(resp) ==
    <<[lat |-> parseFloat(Head(resp.items).lat), lon |-> parseFloat(Head(resp.items).lon)]>>

\* C6: a geocoding lookup whose search returns zero results ends in a reported
\* failure: getCoords returns null and throws nothing into fetchCoordinates,
\* getCoordinatesFromAddress hands its caller the "Address not found" error;
\* when there are results, both return the first one.
C6_ZeroResultsReported ==
    /\ lookup # <<>> =>
        /\ lookup[1].result.thrown = ""
        /\ ZeroResults(lookup[1].response) => lookup[1].result.value = <<>>
        /\ HasResults(lookup[1].response) =>
               lookup[1].result.value = FirstCandidate(lookup[1].response)
    /\ libCall # <<>> =>
        /\ ZeroResults(libCall[1].response) =>
               /\ libCall[1].result.thrown = "Address not found"
               /\ libCall[1].result.value = <<>>
        /\ HasResults(libCall[1].response) =>
               /\ libCall[1].result.thrown = ""
               /\ libCall[1].result.value = FirstCandidate(libCall[1].response)

C6_Witness ==
    /\ lookup # <<>>
    /\ ZeroResults(lookup[1].response)
    /\ lookup[1].result.value = <<>>
    /\ pageError = ""
    /\ libCall # <<>>
    /\ Len(libCall[1].response.items) = 2
    /\ libCall[1].response.items[1] # libCall[1].response.items[2]
    /\ libCall[1].result.value = FirstCandidate(libCall[1].response)

\* C7: after a successful run, routeData has the length and order of the
\* provider's coordinate sequence, element i being provider element i with its
\* two components exchanged: (lon, lat) becomes (lat, lon).
C7_ConversionIsSwap ==
    Succeeded =>
        /\ Len(routeData) = Len(last[1].coordinates)
        /\ \A i \in 1..Len(routeData) :
            /\ routeData[i][1] = last[1].coordinates[i][2]
            /\ routeData[i][2] = last[1].coordinates[i][1]

C7_Witness ==
    /\ Succeeded
    /\ Len(routeData) = 3
    /\ routeData[1] # routeData[2]
    /\ routeData[2][1] # routeData[2][2]
    /\ routeData[2] = <<last[1].coordinates[2][2], last[1].coordinates[2][1]>>

\* C8: in every reachable state completedRoute is a prefix of the routeData
\* currently held.
C8_CompletedIsPrefix == IsPrefix(completedRoute, routeData)

\* C9: once all in-flight fetches have completed, routeData and completedRoute
\* are the ones written by the run started for the most recent
\* from/to/current.
C9_LatestPropsWin ==
    (Quiet /\ last # <<>>) =>
        /\ last[1].from = from
        /\ last[1].to = to
        /\ last[1].current = current

\* C10: every run of fetchRoadRoute ends with isLoading = false and without an
\* exception escaping it, whatever way the try block ended; isLoading is true
\* only while a run is in progress.
C10_RunsEndNotLoading ==
    /\ [](~unhandled /\ (isLoading => ~Quiet))
    /\ [][BagCardinality(inflight') < BagCardinality(inflight) => ~isLoading']_vars

C10_Witness ==
    /\ Failed
    /\ last[1].outcome = "typeError"
    /\ Quiet
    /\ ~isLoading
    /\ ~unhandled

\* {error && !isLoading && (...)}: the note is rendered
ErrorNoteShown == error # "" /\ ~isLoading

\* C11: after a run of fetchRoadRoute has completed, the error note is set if
\* and only if that run failed and used the fallback route; a state whose route
\* came from a successful provider response shows no error note.
C11_ErrorNoteIffFailed ==
    last # <<>> =>
        /\ (error # "") <=> Failed
        /\ Succeeded => ~ErrorNoteShown

====
